---- MODULE Spec2Model ----
(***************************************************************************)
(* Noise stimulus generators (Sparse, Dense) and the frame-equality        *)
(* harness of tests/stimuli/vision/test_topographica_based.py.             *)
(*                                                                         *)
(* Two kinds of generator are driven:                                      *)
(*   "ref"  - the reference generator of the test suite, a Python          *)
(*            generator function (reference_frames): nothing of its body   *)
(*            runs before the first next();                                *)
(*   "topo" - the generator under test (topo.SparseNoise / DenseNoise),    *)
(*            whose source is mozaik/stimuli/vision/topographica_based.py; *)
(*            it is modelled from the written specification (validation at *)
(*            construction, countdown-based next_frame).                   *)
(*                                                                         *)
(* Durations are kept in tenths (1.4 is 14, 2 is 20), so that the          *)
(* quotient time_per_image / frame_duration is exact.                      *)
(***************************************************************************)
EXTENDS Integers, Sequences, FiniteSets, TLC

(***************************************************************************)
(* Bounds of the model.                                                    *)
(***************************************************************************)
\* largest frame count a client passes to frames_equal directly
MaxFrames == 3
\* largest number of next() calls a client makes on one generator
MaxPulls == 3

(***************************************************************************)
(* Constants of the test suite.                                            *)
(***************************************************************************)
\* TopographicaBasedVisualStimulusTester.num_frames
num_frames == 100
\* TestNoise.experiment_seed
experiment_seed == 0

(***************************************************************************)
(* The state of one run.                                                   *)
(***************************************************************************)
VARIABLES
    flow,     \* "check_frames": one run of check_frames; "client": direct use
    pc,       \* where the run stands
    params,   \* the keyword arguments of check_frames
    desc,     \* desc[g]: the arguments generator g was (to be) built from
    made,     \* made[g]: generator g exists
    gen,      \* gen[g]: the state of generator g
    f,        \* f[g]: the last frame pulled from generator g (f0, f1)
    pulls,    \* pulls[g]: the next() calls made on generator g
    i,        \* frames_equal's loop index
    nframes,        \* frames_equal's num_frames argument
    result,   \* what frames_equal returned: "none", "True", "False"
    raised    \* the exception that ended the run, or "none"

vars == <<flow, pc, params, desc, made, gen, f, pulls, i, nframes, result, raised>>

Gens == {0, 1}

(***************************************************************************)
(* Decimal numbers: grid_size arrives as -1, 0, 0.9, 0.9999999999 or a     *)
(* whole number.  A decimal is w + (fh * 10^5 + fl) / 10^10 with w its     *)
(* floor and fh, fl in 0..99999.                                           *)
(***************************************************************************)
Dec(w, fh, fl) == [w |-> w, fh |-> fh, fl |-> fl]

Whole(x) == Dec(x, 0, 0)

IsIntegral(x) == x.fh = 0 /\ x.fl = 0

IsPositive(x) == x.w > 0 \/ (x.w = 0 /\ (x.fh > 0 \/ x.fl > 0))

\* @pytest.mark.parametrize("grid_size", [-1, 0, 0.9, 0.9999999999])
BadGridSizes == {Whole(-1), Whole(0), Dec(0, 90000, 0), Dec(0, 99999, 99999)}

(***************************************************************************)
(* Parameter tuples.  A geometry is the part of the keyword arguments that *)
(* check_frames forwards to both generators.                               *)
(***************************************************************************)
Geom(gs, sx, g, bl, dn) ==
    [grid_size |-> gs, size_x |-> sx, grid |-> g,
     background_luminance |-> bl, density |-> dn]

\* sparse_noise_params / dense_noise_params (Dense carries no grid flag and is
\* built with grid=False)
NoiseParams(variant) ==
    { Geom(Whole(10), 10, variant = "Sparse", 50, 5),
      Geom(Whole(15), 15, FALSE, 60, 6),
      Geom(Whole(5), 5, FALSE, 0, 15) }

\* the keyword defaults of reference_frames / topo_frames: default_noise and
\* default_topo (size_x 11.0, density 10.0, background_luminance 50.0)
DefaultGeom == Geom(Whole(11), 11, FALSE, 50, 10)

\* test_min_grid_size: only grid_size is passed, the rest are the defaults
MinGridSizeGeoms == { [DefaultGeom EXCEPT !.grid_size = gs] : gs \in BadGridSizes }

Variants == {"Sparse", "Dense"}

Seeds == {experiment_seed, experiment_seed + 1}

\* default_noise["time_per_image"] = 2 and default_topo["frame_duration"] = 1
\* are the shipped values; 1 and 3 are the other whole time_per_image values
\* the dictionaries are given here.
HarnessTimes == {<<10, 10>>, <<20, 10>>, <<30, 10>>}

\* what a client passes to the constructor of the generator under test:
\* (time_per_image, frame_duration) pairs with a whole quotient (1, 2, 2) ...
WholeTimes == {<<10, 10>>, <<20, 10>>, <<30, 15>>}

\* ... and pairs without one; test_init_assert passes time_per_image=1.4,
\* frame_duration=1.5
FractionalTimes == {<<14, 15>>, <<10, 20>>, <<25, 10>>}

Desc(kind, variant, geom, times, seed) ==
    [kind |-> kind, variant |-> variant, geom |-> geom,
     time_per_image |-> times[1], frame_duration |-> times[2], seed |-> seed]

(***************************************************************************)
(* The random field sampler (imagen.random.SparseNoise / DenseNoise with a *)
(* numpy RandomState): a seeded source that advances by one step per draw. *)
(***************************************************************************)
RngModulus == 16

NoRng == [state |-> -1, pos |-> 0]

RandomState(seed) == [state |-> seed % RngModulus, pos |-> 0]

RngStep(rng) == [state |-> (13 * rng.state + 7) % RngModulus, pos |-> rng.pos + 1]

NoField == [dim |-> 0, cells |-> Whole(0), grid |-> FALSE, pix |-> -1]

\* the keyword arguments both generators hand to the sampler; the radius is
\* size_x / 2 in Python 2, whole for the whole size_x of the parameter tuples
SamplerArgs(d) ==
    [grid_density |-> <<d.geom.grid_size, d.geom.size_x>>,
     grid    |-> (d.variant = "Sparse" /\ d.geom.grid),
     offset  |-> 0,
     scale   |-> 2 * d.geom.background_luminance,
     radius  |-> d.geom.size_x \div 2,
     density |-> d.geom.density,
     dense   |-> (d.variant = "Dense")]

\* grid_density <= 0: the sampler refuses the configuration
SamplerRejects(args) == ~IsPositive(args.grid_density[1]) \/ args.grid_density[2] <= 0

\* one luminance field, from the source's state after the draw
Field(args, rng) ==
    LET r == IF args.dense THEN rng.state \div 4 ELSE (rng.state \div 4) % 2
    IN  [dim   |-> 2 * args.radius * args.density,
         cells |-> args.grid_density[1],
         grid  |-> args.grid,
         pix   |-> args.offset + args.scale * r]

\* aux(): advance the source, return the field
Sample(args, rng) == LET next == RngStep(rng) IN [rng |-> next, field |-> Field(args, next)]

(***************************************************************************)
(* A frame is the pair (field, metadata); the noise family's metadata is   *)
(* the list [0].                                                           *)
(***************************************************************************)
Frame(field) == [field |-> field, meta |-> <<0>>]

NoFrame == [field |-> NoField, meta |-> <<>>]

(***************************************************************************)
(* A generator's state.  started: its first next() has run; rng: its       *)
(* random source; held: the field it repeats (aux2); cnt: the index i of   *)
(* the for loop ("ref") or the countdown ("topo").                         *)
(***************************************************************************)
NewGen(rng) == [started |-> FALSE, rng |-> rng, held |-> NoField, cnt |-> 0]

Yield(s) == [gen |-> s, outcome |-> "frame", frame |-> Frame(s.held)]

Raise(s, e) == [gen |-> s, outcome |-> e, frame |-> NoFrame]

(***************************************************************************)
(* The reference generator: reference_frames of TestSparseNoise and of     *)
(* TestDenseNoise.                                                         *)
(***************************************************************************)
\* variant: the loop runs once too often, range(k + 1)
RefFramesPerImagePlusOne(d) == d.time_per_image \div d.frame_duration + 1

\* variant: the operands of the division are swapped
RefFramesPerImageSwapped(d) == d.frame_duration \div d.time_per_image

\* range(time_per_image / frame_duration): Python 2 division of two ints
RefFramesPerImage(d) == d.time_per_image \div d.frame_duration

\* variant: RandomState() without its seed argument seeds itself from the
\* process's entropy, which differs from one call to the next (here: with the
\* number of next() calls made so far)
RefRandomGeneratorUnseeded(d) == RandomState(d.seed + pulls[0] + pulls[1])

\* random_generator=numpy.random.RandomState(seed=self.experiment_seed)
RefRandomGenerator(d) == RandomState(d.seed)

\* calling a generator function runs none of its body
RefCreate(d) == NewGen(NoRng)

\*   aux = imagen.random.SparseNoise(..., RandomState(seed=experiment_seed))
\*   while True:
\*       aux2 = aux()
\*       for i in range(time_per_image / frame_duration):
\*           yield (aux2, [0])
\* One next(): from the start, or from the yield it is suspended at, to the
\* next yield.  With an empty range the while loop draws for ever and the call
\* does not return ("spin").
RefNext(d, s) ==
    LET count == RefFramesPerImage(d)
        args  == SamplerArgs(d)
    IN  IF ~s.started /\ SamplerRejects(args)
          THEN Raise(s, "ValueError")
        ELSE IF s.started /\ s.cnt + 1 < count
          THEN Yield([s EXCEPT !.cnt = s.cnt + 1])
        ELSE LET rng0 == IF s.started THEN s.rng ELSE RefRandomGenerator(d)
                 drew == Sample(args, rng0)
                 s1   == [started |-> TRUE, rng |-> drew.rng,
                          held |-> drew.field, cnt |-> 0]
             IN  IF count >= 1 THEN Yield(s1) ELSE Raise(s1, "spin")

(***************************************************************************)
(* The generator under test: topo.SparseNoise / topo.DenseNoise.           *)
(***************************************************************************)
\* variant: any time_per_image of at least one frame_duration passes
TimingValidAtLeastOne(d) == d.time_per_image >= d.frame_duration

\* time_per_image is an exact integer multiple of frame_duration
TimingValid(d) == d.time_per_image % d.frame_duration = 0

\* variant: only the sign of grid_size is looked at
GridSizeValidPositive(d) == IsPositive(d.geom.grid_size)

\* grid_size is a positive whole number
GridSizeValid(d) == IsPositive(d.geom.grid_size) /\ IsIntegral(d.geom.grid_size)

\* the constructor's verdict: "ok", or the error it raises
NoiseInit(d) ==
    IF ~TimingValid(d) THEN "AssertionError"
    ELSE IF ~GridSizeValid(d) THEN "ValueError"
    ELSE "ok"

\* the constructed generator: its own random source, no held field yet
TopoCreate(d) == NewGen(RandomState(d.seed))

TopoFramesPerImage(d) == d.time_per_image \div d.frame_duration

\* next_frame: on the first call and whenever the countdown is zero, sample a
\* new held field and reset the countdown; then return the held field
TopoNext(d, s) ==
    LET resample == ~s.started \/ s.cnt = 0
        drew     == Sample(SamplerArgs(d), s.rng)
        s1       == IF resample
                      THEN [started |-> TRUE, rng |-> drew.rng,
                            held |-> drew.field, cnt |-> TopoFramesPerImage(d)]
                      ELSE s
    IN  Yield([s1 EXCEPT !.cnt = s1.cnt - 1])

\* g.next() on either kind
GenNext(d, s) == IF d.kind = "ref" THEN RefNext(d, s) ELSE TopoNext(d, s)

\* building either kind: the verdict and the generator
GenVerdict(d) == IF d.kind = "ref" THEN "ok" ELSE NoiseInit(d)

GenCreate(d) == IF d.kind = "ref" THEN RefCreate(d) ELSE TopoCreate(d)

(***************************************************************************)
(* The harness: TopographicaBasedVisualStimulusTester.                     *)
(***************************************************************************)
\* variant: the reference is seeded with another seed than the generator under test
ReferenceFramesOtherSeed(p) == Desc("ref", p.variant, p.geom, p.times, experiment_seed + 1)

\* variant: grid_size is not forwarded, the constructor sees its default
TopoFramesDefaultGridSize(p) ==
    Desc("topo", p.variant, [p.geom EXCEPT !.grid_size = DefaultGeom.grid_size],
         p.times, experiment_seed)

\* reference_frames(**params): the reference generator's configuration; the
\* timing is read from default_noise / default_topo, the seed from
\* experiment_seed
ReferenceFrames(p) == Desc("ref", p.variant, p.geom, p.times, experiment_seed)

\* topo_frames(**params): the keyword arguments given to topo.SparseNoise /
\* topo.DenseNoise
TopoFrames(p) == Desc("topo", p.variant, p.geom, p.times, experiment_seed)

\* frames_equal pulls f0 from its first argument and f1 from its second
FirstGen == 0

SecondGen == 1

\* variant: "or" in place of "and"
FramesMatchEither(f0, f1) == f0.field = f1.field \/ f0.meta = f1.meta

\* numpy.array_equal(f0[0], f1[0]) and f0[1] == f1[1]
FramesMatch(f0, f1) == f0.field = f1.field /\ f0.meta = f1.meta

\* variant: a mismatch does not end the loop
CompareStepNoReturn(match, idx) == [i |-> idx + 1, pc |-> "fe_g0", result |-> "none"]

\* the loop body after the two pulls: a mismatch returns False at once, a
\* match goes on to the next index
CompareStep(match, idx) ==
    IF match THEN [i |-> idx + 1, pc |-> "fe_g0", result |-> "none"]
             ELSE [i |-> idx, pc |-> "returned", result |-> "False"]

\* variant: the generators share one sampler and one held frame
AdvanceShared(gens, g, s) == [x \in DOMAIN gens |-> s]

\* g.next() advances the generator it is called on
Advance(gens, g, s) == [gens EXCEPT ![g] = s]

NoDesc == Desc("none", "Sparse", DefaultGeom, <<10, 10>>, experiment_seed)

\* a variant with one of its parameter tuples
VariantParams == UNION { { <<v, g>> : g \in NoiseParams(v) } : v \in Variants }

\* the parameters test_frames and test_min_grid_size hand to check_frames
CheckParams ==
    { [variant |-> vg[1], geom |-> vg[2], times |-> t] :
        vg \in VariantParams \cup (Variants \X MinGridSizeGeoms), t \in HarnessTimes }

NoParams == [variant |-> "Sparse", geom |-> DefaultGeom, times |-> <<20, 10>>]

\* the generators a client builds itself
ClientDescs ==
    { Desc("ref", vg[1], vg[2], t, sd) :
        vg \in VariantParams, t \in {<<10, 10>>, <<20, 10>>}, sd \in Seeds }
    \cup { Desc("topo", vg[1], vg[2], t, sd) :
        vg \in VariantParams, t \in WholeTimes, sd \in Seeds }
    \cup { Desc("topo", v, DefaultGeom, t, experiment_seed) :
        v \in Variants, t \in FractionalTimes }
    \cup { Desc("topo", v, g, <<20, 10>>, experiment_seed) :
        v \in Variants, g \in MinGridSizeGeoms }

Init ==
    /\ \/ flow = "check_frames" /\ pc = "rf" /\ params \in CheckParams
       \/ flow = "client" /\ pc = "new0" /\ params = NoParams
    /\ desc = [g \in Gens |-> NoDesc]
    /\ made = [g \in Gens |-> FALSE]
    /\ gen = [g \in Gens |-> NewGen(NoRng)]
    /\ f = [g \in Gens |-> NoFrame]
    /\ pulls = [g \in Gens |-> 0]
    /\ i = 0
    /\ nframes = 0
    /\ result = "none"
    /\ raised = "none"

\* building generator g from d: it exists, or the constructor's error ends the run
Build(g, d, then) ==
    LET verdict == GenVerdict(d)
    IN  /\ desc' = [desc EXCEPT ![g] = d]
        /\ IF verdict = "ok"
             THEN /\ made' = [made EXCEPT ![g] = TRUE]
                  /\ gen' = [gen EXCEPT ![g] = GenCreate(d)]
                  /\ pc' = then
                  /\ raised' = raised
             ELSE /\ raised' = verdict
                  /\ pc' = "done"
                  /\ UNCHANGED <<made, gen>>

\* one g.next(): the frame is handed over, or the call raises, or never returns
Pull(g, then) ==
    LET r == GenNext(desc[g], gen[g])
    IN  /\ gen' = Advance(gen, g, r.gen)
        /\ pulls' = [pulls EXCEPT ![g] = pulls[g] + 1]
        /\ IF r.outcome = "frame"
             THEN f' = [f EXCEPT ![g] = r.frame] /\ pc' = then /\ raised' = raised
             ELSE IF r.outcome = "spin"
               THEN f' = f /\ pc' = "hung" /\ raised' = raised
               ELSE f' = f /\ pc' = "done" /\ raised' = r.outcome

\* check_frames: rf = self.reference_frames(**params)
CheckFramesReference ==
    /\ flow = "check_frames" /\ pc = "rf"
    /\ Build(0, ReferenceFrames(params), "tf")
    /\ UNCHANGED <<flow, params, f, pulls, i, nframes, result>>

\* check_frames: tf = self.topo_frames(**params), then frames_equal(rf, tf, num_frames)
CheckFramesTopo ==
    /\ flow = "check_frames" /\ pc = "tf"
    /\ Build(1, TopoFrames(params), "fe_g0")
    /\ nframes' = num_frames
    /\ i' = 0
    /\ UNCHANGED <<flow, params, f, pulls, result>>

\* a client builds its first, then its second generator
ClientNew(g) ==
    /\ flow = "client" /\ pc = (IF g = 0 THEN "new0" ELSE "new1")
    /\ \E d \in ClientDescs : Build(g, d, IF g = 0 THEN "new1" ELSE "ready")
    /\ UNCHANGED <<flow, params, f, pulls, i, nframes, result>>

\* a client pulls a frame from one of its generators
ClientPull(g) ==
    /\ flow = "client" /\ pc = "ready" /\ pulls[g] < MaxPulls
    /\ Pull(g, "ready")
    /\ UNCHANGED <<flow, params, desc, made, i, nframes, result>>

\* a client compares its two fresh generators over num frames
ClientFramesEqual ==
    /\ flow = "client" /\ pc = "ready" /\ pulls[0] = 0 /\ pulls[1] = 0
    /\ \E k \in 0..MaxFrames : nframes' = k
    /\ i' = 0
    /\ pc' = "fe_g0"
    /\ UNCHANGED <<flow, params, desc, made, gen, f, pulls, result, raised>>

\* frames_equal: f0 = g0.next()
FramesEqualPull0 ==
    /\ pc = "fe_g0" /\ i < nframes
    /\ Pull(FirstGen, "fe_g1")
    /\ UNCHANGED <<flow, params, desc, made, i, nframes, result>>

\* frames_equal: f1 = g1.next()
FramesEqualPull1 ==
    /\ pc = "fe_g1"
    /\ Pull(SecondGen, "fe_cmp")
    /\ UNCHANGED <<flow, params, desc, made, i, nframes, result>>

\* frames_equal: if not (array_equal and metadata equal): return False
FramesEqualCompare ==
    /\ pc = "fe_cmp"
    /\ LET step == CompareStep(FramesMatch(f[0], f[1]), i)
       IN  i' = step.i /\ pc' = step.pc /\ result' = step.result
    /\ UNCHANGED <<flow, params, desc, made, gen, f, pulls, nframes, raised>>

\* frames_equal: the loop is over: return True
FramesEqualReturn ==
    /\ pc = "fe_g0" /\ i >= nframes
    /\ result' = "True"
    /\ pc' = "returned"
    /\ UNCHANGED <<flow, params, desc, made, gen, f, pulls, i, nframes, raised>>

\* check_frames: assert self.frames_equal(...); a client just takes the result
Finish ==
    /\ pc = "returned"
    /\ raised' = (IF flow = "check_frames" /\ result = "False"
                    THEN "AssertionError" ELSE raised)
    /\ pc' = "done"
    /\ UNCHANGED <<flow, params, desc, made, gen, f, pulls, i, nframes, result>>

Next ==
    \/ CheckFramesReference
    \/ CheckFramesTopo
    \/ \E g \in Gens : ClientNew(g)
    \/ \E g \in Gens : ClientPull(g)
    \/ ClientFramesEqual
    \/ FramesEqualPull0
    \/ FramesEqualPull1
    \/ FramesEqualCompare
    \/ FramesEqualReturn
    \/ Finish

Spec == Init /\ [][Next]_vars

(***************************************************************************)
(* What the properties below speak of.                                     *)
(***************************************************************************)
\* time_per_image = k * frame_duration for a positive integer k
IsWholeMultiple(d) ==
    \E k \in 1..d.time_per_image : k * d.frame_duration = d.time_per_image

\* that k
HoldLength(d) ==
    CHOOSE k \in 1..d.time_per_image : k * d.frame_duration = d.time_per_image

\* grid_size is non-positive or non-integral
BadGridSize(gs) == gs.w < 0 \/ (gs.w = 0 /\ gs.fh = 0 /\ gs.fl = 0) \/ gs.fh # 0 \/ gs.fl # 0

\* the random source of seed sd after j draws
RECURSIVE SourceAfter(_, _)
SourceAfter(sd, j) == IF j = 0 THEN RandomState(sd) ELSE RngStep(SourceAfter(sd, j - 1))

\* the field of draw number j (from 0) under configuration d
FieldOfDraw(d, j) == Field(SamplerArgs(d), SourceAfter(d.seed, j + 1))

\* generator d after p calls of next() on it alone
RECURSIVE StateAfter(_, _)
StateAfter(d, p) == IF p = 0 THEN GenCreate(d) ELSE GenNext(d, StateAfter(d, p - 1)).gen

\* frame number j (from 0) of the stream of d
NthFrame(d, j) == GenNext(d, StateAfter(d, j)).frame

\* a configuration error
ConfigErrors == {"AssertionError", "ValueError"}

(***************************************************************************)
(* C1. Sample and hold: with k = time_per_image / frame_duration, after p  *)
(* calls of next() a generator has made ceil(p / k) draws, and the frame   *)
(* of call p - 1 (counting from 0) carries the field of draw number        *)
(* floor((p - 1) / k) with metadata [0]; the held field is that field.     *)
(***************************************************************************)
C1_SampleAndHold ==
    \A g \in Gens :
        (made[g] /\ pulls[g] >= 1) =>
            LET k == HoldLength(desc[g])
                p == pulls[g]
            IN  /\ gen[g].rng.pos = (p + k - 1) \div k
                /\ f[g] = Frame(FieldOfDraw(desc[g], (p - 1) \div k))
                /\ gen[g].held = f[g].field

\* a reference generator with k = 2 has yielded a held frame and then a new one,
\* and the two draws differ
C1_Witness ==
    \E g \in Gens :
        /\ made[g] /\ desc[g].kind = "ref" /\ HoldLength(desc[g]) = 2
        /\ pulls[g] = 3 /\ gen[g].rng.pos = 2
        /\ FieldOfDraw(desc[g], 0) # FieldOfDraw(desc[g], 1)

(***************************************************************************)
(* C2. Building a Sparse or Dense generator whose time_per_image is not an *)
(* exact integer multiple of frame_duration raises AssertionError and no   *)
(* generator exists; for a whole multiple the constructor never fails with *)
(* AssertionError (with a valid grid_size the generator exists).           *)
(***************************************************************************)
C2_TimingValidation ==
    \A g \in Gens :
        (desc[g].kind = "topo") =>
            /\ ~IsWholeMultiple(desc[g]) =>
                   (~made[g] /\ raised = "AssertionError" /\ pc = "done")
            /\ IsWholeMultiple(desc[g]) =>
                   (made[g] \/ (raised = "ValueError" /\ BadGridSize(desc[g].geom.grid_size)))

\* time_per_image = 1.4, frame_duration = 1.5 was refused
C2_Witness ==
    \E g \in Gens :
        /\ desc[g].kind = "topo"
        /\ desc[g].time_per_image = 14 /\ desc[g].frame_duration = 15
        /\ raised = "AssertionError" /\ ~made[g]

(***************************************************************************)
(* C3. With a grid_size that is non-positive or non-integral (-1, 0, 0.9,  *)
(* 0.9999999999), building the generator raises ValueError, for Sparse and *)
(* for Dense; check_frames with such a grid_size never gets a result from  *)
(* the comparison.                                                         *)
(***************************************************************************)
C3_GridSizeValidation ==
    /\ \A g \in Gens :
           (flow = "client" /\ desc[g].kind = "topo" /\ IsWholeMultiple(desc[g])
              /\ BadGridSize(desc[g].geom.grid_size)) =>
               (~made[g] /\ raised = "ValueError")
    /\ (flow = "check_frames" /\ BadGridSize(params.geom.grid_size)) =>
           /\ result = "none"
           /\ ~made[1]
           /\ pc \in {"rf", "tf", "done"}
           /\ pc = "done" => raised = "ValueError"

\* check_frames(grid_size=0.9999999999) ended with ValueError, for the Dense variant
C3_Witness ==
    /\ flow = "check_frames" /\ params.variant = "Dense"
    /\ params.geom.grid_size = Dec(0, 99999, 99999)
    /\ pc = "done" /\ raised = "ValueError"

(***************************************************************************)
(* C4. In check_frames (same configuration, same seed) every frame of the  *)
(* generator under test equals the frame of the reference generator at the *)
(* same index, field and metadata, over the first num_frames = 100 frames: *)
(* the comparison returns True after 100 frames of each.                   *)
(***************************************************************************)
C4_MatchesReference ==
    (flow = "check_frames" /\ made[1]) =>
        /\ pc = "fe_cmp" => (f[0].field = f[1].field /\ f[0].meta = f[1].meta
                              /\ f[1].meta = <<0>>)
        /\ pc \in {"returned", "done"} =>
              (result = "True" /\ i = num_frames /\ raised = "none"
                /\ pulls[0] = num_frames /\ pulls[1] = num_frames)
        /\ pc # "hung"

\* a run of check_frames compared 100 frames, among them two different fields
C4_Witness ==
    /\ flow = "check_frames" /\ pc = "done" /\ result = "True"
    /\ pulls[1] = num_frames
    /\ NthFrame(desc[1], 0) # NthFrame(desc[1], num_frames - 1)

C6_FramesEqualIff ==
    (pc \in {"returned", "done"} /\ result # "none") =>
        LET agree(j) == /\ NthFrame(desc[0], j).field = NthFrame(desc[1], j).field
                        /\ NthFrame(desc[0], j).meta = NthFrame(desc[1], j).meta
        IN  /\ result = "True" <=> (\A j \in 0..(nframes - 1) : agree(j))
            /\ result = "False" =>
                  (i < nframes /\ ~agree(i) /\ \A j \in 0..(i - 1) : agree(j))
            /\ nframes = 0 => result = "True"

\* a comparison returned False at an index after the first
C6_Witness ==
    /\ pc = "done" /\ result = "False" /\ i >= 1 /\ i + 1 < nframes

(***************************************************************************)
(* C7 as stated. frames_equal with frame count n has pulled exactly n      *)
(* frames from each of the two generators when it returns, whatever it     *)
(* returns.                                                                *)
(***************************************************************************)
C7_PullsExactlyN ==
    pc = "returned" => (pulls[0] = nframes /\ pulls[1] = nframes)

(***************************************************************************)
(* C7 amended. frames_equal pulls the frames in lockstep, f0 then f1, and  *)
(* only while all earlier pairs matched: when it returns True it has       *)
(* pulled exactly n frames from each generator; when it returns False at   *)
(* the first mismatching index j it has pulled exactly j + 1 <= n frames   *)
(* from each.                                                              *)
(***************************************************************************)
C7_PullsUntilMismatch ==
    /\ pc = "returned" =>
          /\ result = "True" => (pulls[0] = nframes /\ pulls[1] = nframes)
          /\ result = "False" =>
                /\ pulls[0] = i + 1 /\ pulls[1] = i + 1 /\ i + 1 <= nframes
                /\ (f[0].field # f[1].field \/ f[0].meta # f[1].meta)
    /\ pc = "fe_g0" => /\ pulls[0] = i /\ pulls[1] = i /\ i <= nframes
                       /\ i >= 1 => (f[0].field = f[1].field /\ f[0].meta = f[1].meta)
    /\ pc = "fe_g1" => (pulls[0] = i + 1 /\ pulls[1] = i)
    /\ pc = "fe_cmp" => (pulls[0] = i + 1 /\ pulls[1] = i + 1)

\* a comparison returned False before it had pulled n frames
C7_Witness ==
    /\ pc = "returned" /\ result = "False"
    /\ pulls[0] < nframes /\ pulls[1] < nframes

(***************************************************************************)
(* C8. Validation is eager: a configuration error ends the run before any  *)
(* frame is pulled and before any draw; every generator under test that    *)
(* exists has a valid configuration, so none of its next_frame calls       *)
(* raises a configuration error; no draw is made for an invalid            *)
(* configuration.                                                          *)
(***************************************************************************)
C8_EagerValidation ==
    /\ raised \in ConfigErrors =>
          /\ result = "none"
          /\ \A g \in Gens : pulls[g] = 0 /\ gen[g].rng.pos = 0
          /\ \E g \in Gens : desc[g].kind = "topo" /\ ~made[g]
    /\ \A g \in Gens :
          (made[g] /\ desc[g].kind = "topo") =>
              (IsWholeMultiple(desc[g]) /\ ~BadGridSize(desc[g].geom.grid_size))
    /\ \A g \in Gens :
          (desc[g].kind # "none" /\ (~IsWholeMultiple(desc[g])
                                      \/ BadGridSize(desc[g].geom.grid_size))) =>
              \A h \in Gens : pulls[h] = 0 /\ gen[h].rng.pos = 0

\* check_frames with a bad grid_size: the reference generator exists, the
\* constructor of the generator under test raised, nothing was pulled
C8_Witness ==
    /\ flow = "check_frames" /\ raised = "ValueError" /\ pc = "done"
    /\ made[0] /\ ~made[1] /\ pulls[0] = 0 /\ pulls[1] = 0

(***************************************************************************)
(* C9. A constructed generator never runs out and never hangs: every       *)
(* next() call returns a frame (the held field, metadata [0]) after at     *)
(* most one draw, and every generator that exists holds each image for at  *)
(* least one frame, so the sample-then-hold loop never draws without       *)
(* yielding.                                                               *)
(***************************************************************************)
C9_NeverExhausted ==
    /\ [](/\ pc # "hung"
          /\ \A g \in Gens :
                made[g] => (IF desc[g].kind = "ref" THEN RefFramesPerImage(desc[g])
                                                    ELSE TopoFramesPerImage(desc[g])) >= 1)
    /\ [][\A g \in Gens :
            (pulls'[g] = pulls[g] + 1) =>
                /\ gen'[g].rng.pos \in {gen[g].rng.pos, gen[g].rng.pos + 1}
                /\ raised' = raised
                /\ pc' # "hung"
                /\ f'[g].field = gen'[g].held
                /\ f'[g].meta = <<0>>]_vars

\* a generator has answered 100 calls
C9_Witness ==
    \E g \in Gens : made[g] /\ pulls[g] = num_frames /\ f[g].meta = <<0>>

(***************************************************************************)
(* C10. Each generator owns its random source, countdown and held frame:   *)
(* a step that pulls nothing from generator g leaves g's state and g's     *)
(* last frame unchanged; g's random source only ever stays or advances by  *)
(* one draw; and under every interleaving of pulls g's state and last      *)
(* frame are those of a generator pulled alone the same number of times.   *)
(***************************************************************************)
C10_Isolation ==
    /\ [][\A g \in Gens :
            /\ (made[g] /\ pulls'[g] = pulls[g]) => (gen'[g] = gen[g] /\ f'[g] = f[g])
            /\ (made[g] /\ gen[g].started) =>
                   (gen'[g].rng = gen[g].rng \/ gen'[g].rng = RngStep(gen[g].rng))]_vars
    /\ [](\A g \in Gens :
            made[g] =>
                /\ gen[g] = StateAfter(desc[g], pulls[g])
                /\ pulls[g] >= 1 => f[g] = NthFrame(desc[g], pulls[g] - 1))

\* a client has pulled its second generator ahead of its first
C10_Witness ==
    /\ flow = "client" /\ pc = "ready"
    /\ pulls[0] = 1 /\ pulls[1] = 3
    /\ gen[0].rng.pos = 1 /\ gen[1].rng.pos >= 2

====
